---------------------------- MODULE Spec2Model ----------------------------
(***************************************************************************)
(* Model of Search_Method.py: the adjacency loader, the five path searches *)
(* (brute force, BFS, DFS, greedy best-first, A-star) and the interaction  *)
(* loop of main().                                                         *)
(*                                                                         *)
(* Location names are the integers 1..NumNames; their integer order stands *)
(* for Python's string order, which heapq uses to break ties between       *)
(* frontier tuples.  Coordinates are <<lat, lon>> in degrees, restricted   *)
(* to the two poles and to equator points whose longitude is a multiple of *)
(* 45 degrees, where the haversine formula has exact values; distances are *)
(* counted in arcs of 45 degrees (6371 * pi / 4 km), so floating-point     *)
(* rounding is not modelled.                                               *)
(***************************************************************************)
EXTENDS Integers, Sequences, FiniteSets, TLC

VARIABLES
    file,            \* lines of the adjacency file while load_adjacency has it open
    lineno,          \* number of lines load_adjacency has read
    adjacency_list,  \* dict: name -> list of neighbour names
    cities,          \* dict: name -> <<lat, lon>>
    pc,              \* where main() is
    start,           \* main's start (NoName while no value is live)
    goal,            \* main's goal
    choice,          \* main's choice
    stack,           \* brute_force_search's stack (top = last element)
    dfs_stack,       \* dfs's stack
    queue,           \* bfs's deque (left = first element)
    best_pq,         \* best_first_search's heap, kept as a sorted sequence
    pq,              \* a_star_search's heap, kept as a sorted sequence
    visited,         \* a_star_search's visited dict
    pushed,          \* history: every <<city, g>> a_star_search has put on pq
    iters,           \* history: loop passes made by the search call so far
    route            \* value returned by the search call

vars == <<file, lineno, adjacency_list, cities, pc, start, goal, choice, stack,
          dfs_stack, queue, best_pq, pq, visited, pushed, iters, route>>

searchVars == <<stack, dfs_stack, queue, best_pq, pq, visited, pushed, iters>>

-----------------------------------------------------------------------------
(* Bounds of the model                                                      *)

NumNames == 3
MaxLines == 2

Names == 1..NumNames

\* A name that occurs in neither input file; it also stands for start and
\* goal while main() holds no live value for them.
NoName == NumNames + 1

\* The word 'list' typed at the start prompt.
ListCmd == NumNames + 2

\* The keys '1'..'5' of search_methods.
NumChoices == 5

Choices == 1..NumChoices

\* Any other text typed at the menu; also choice while no call is live.
NoChoice == NumChoices + 1

\* The values of route: a path is a non-empty sequence of names.
None == <<>>

-----------------------------------------------------------------------------
(* Dictionaries and sequences                                               *)

EmptyDict == <<>>

\* dict.get(key, [])
Get(dict, key) == IF key \in DOMAIN dict THEN dict[key] ELSE <<>>

\* dict.setdefault(key, []).append(value)
SetDefaultAppend(dict, key, value) ==
    [k \in DOMAIN dict \cup {key} |-> IF k = key THEN Append(Get(dict, key), value) ELSE dict[k]]

\* dict[key] = value
Put(dict, key, value) ==
    [k \in DOMAIN dict \cup {key} |-> IF k = key THEN value ELSE dict[k]]

\* x in list
In(x, list) == \E i \in 1..Len(list) : list[i] = x

Range(list) == {list[i] : i \in 1..Len(list)}

Last(list) == list[Len(list)]

ButLast(list) == SubSeq(list, 1, Len(list) - 1)

-----------------------------------------------------------------------------
(* load_cities, load_adjacency                                              *)

\* One row of the cities file: rows with fewer than 3 fields are skipped.
load_cities_row(dict, row) ==
    IF Len(row) < 3 THEN dict ELSE Put(dict, row[1], <<row[2], row[3]>>)

RECURSIVE load_cities(_, _)
load_cities(dict, rows) ==
    IF rows = <<>> THEN dict
    ELSE load_cities(load_cities_row(dict, Head(rows)), Tail(rows))

\* One line of the adjacency file, given as its fields (parts).  A line with
\* more than two fields makes "city1, city2 = parts" raise ValueError.
LineRaises(parts) == Len(parts) > 2

\* Mutant of load_adjacency_line: the second append is left out.
load_adjacency_line_one_way(dict, parts) ==
    IF Len(parts) < 2 THEN dict
    ELSE SetDefaultAppend(dict, parts[1], parts[2])

load_adjacency_line(dict, parts) ==
    IF Len(parts) < 2 THEN dict
    ELSE SetDefaultAppend(SetDefaultAppend(dict, parts[1], parts[2]), parts[2], parts[1])

RECURSIVE load_adjacency(_, _)
load_adjacency(dict, lines) ==
    IF lines = <<>> THEN dict
    ELSE load_adjacency(load_adjacency_line(dict, Head(lines)), Tail(lines))

-----------------------------------------------------------------------------
(* haversine                                                                *)

Abs(x) == IF x < 0 THEN -x ELSE x

\* The central angle in degrees the formula yields.  With
\* a = sin(dlat/2)^2 + cos(lat1) cos(lat2) sin(dlon/2)^2 and the angle
\* 2 atan2(sqrt a, sqrt(1 - a)): at a pole cos(lat) = 0, so the angle is
\* |dlat|; between two equator points dlat = 0 and cos = 1, so the angle is
\* |dlon| folded into 0..180.
CentralAngle(coord1, coord2) ==
    LET dlat == coord2[1] - coord1[1]
        dlon == coord2[2] - coord1[2]
        d == Abs(dlon) % 360
    IN  IF Abs(coord1[1]) = 90 \/ Abs(coord2[1]) = 90 THEN Abs(dlat)
        ELSE IF d > 180 THEN 360 - d ELSE d

\* Distance in arcs of 45 degrees.
haversine(coord1, coord2) == CentralAngle(coord1, coord2) \div 45

-----------------------------------------------------------------------------
(* The searches.  Each ..._iter operator is one pass of the function's      *)
(* while loop, from the loop test to the end of the for loop or the return; *)
(* it yields the frontier after the pass and how the pass ended.            *)

Loop(frontier) == [frontier |-> frontier, outcome |-> "loop", value |-> None]

Return(frontier, value) == [frontier |-> frontier, outcome |-> "return", value |-> value]

\* cities[neighbor] with neighbor missing from cities.
KeyError(frontier) == [frontier |-> frontier, outcome |-> "KeyError", value |-> None]

\* "for neighbor in adjacency_list.get(city, []): if neighbor not in path"
Unseen(city, path) ==
    SelectSeq(Get(adjacency_list, city), LAMBDA neighbor : ~In(neighbor, path))

\* Mutant of Successors: the entry keeps the old path, as if "+ [neighbor]"
\* had been left out.
Successors_path_not_extended(city, path) ==
    LET nbrs == Unseen(city, path)
    IN  [i \in 1..Len(nbrs) |-> <<nbrs[i], path>>]

\* the entries (neighbor, path + [neighbor]) appended by one for loop
Successors(city, path) ==
    LET nbrs == Unseen(city, path)
    IN  [i \in 1..Len(nbrs) |-> <<nbrs[i], Append(path, nbrs[i])>>]

brute_force_search_init == << <<start, <<start>> >> >>

brute_force_search_iter(stk) ==
    IF stk = <<>> THEN Return(stk, None)
    ELSE LET city == Last(stk)[1]
             path == Last(stk)[2]
         IN  IF city = goal THEN Return(ButLast(stk), path)
             ELSE Loop(ButLast(stk) \o Successors(city, path))

bfs_init == << <<start, <<start>> >> >>

\* Mutant of bfs_iter: pop() in place of popleft().
bfs_iter_pops_right(q) ==
    IF q = <<>> THEN Return(q, None)
    ELSE LET city == Last(q)[1]
             path == Last(q)[2]
         IN  IF city = goal THEN Return(ButLast(q), path)
             ELSE Loop(ButLast(q) \o Successors(city, path))

bfs_iter(q) ==
    IF q = <<>> THEN Return(q, None)
    ELSE LET city == Head(q)[1]
             path == Head(q)[2]
         IN  IF city = goal THEN Return(Tail(q), path)
             ELSE Loop(Tail(q) \o Successors(city, path))

dfs_init == << <<start, <<start>> >> >>

\* Mutant of dfs_iter: the neighbours are pushed in reverse order.
dfs_iter_reversed(stk) ==
    IF stk = <<>> THEN Return(stk, None)
    ELSE LET city == Last(stk)[1]
             path == Last(stk)[2]
             new == Successors(city, path)
         IN  IF city = goal THEN Return(ButLast(stk), path)
             ELSE Loop(ButLast(stk) \o [i \in 1..Len(new) |-> new[Len(new) + 1 - i]])

dfs_iter(stk) ==
    IF stk = <<>> THEN Return(stk, None)
    ELSE LET city == Last(stk)[1]
             path == Last(stk)[2]
         IN  IF city = goal THEN Return(ButLast(stk), path)
             ELSE Loop(ButLast(stk) \o Successors(city, path))

\* Python's order on lists of names: lexicographic, a proper prefix first.
PathLess(p, q) ==
    \E i \in 1..(Len(q)) :
        /\ \A j \in 1..(i - 1) : j <= Len(p) /\ p[j] = q[j]
        /\ (i > Len(p) \/ p[i] < q[i])

\* Python's order on the tuples (h, city, path) and (f, city, path, g).
TupleLess(a, b) ==
    \/ a[1] < b[1]
    \/ a[1] = b[1] /\ a[2] < b[2]
    \/ a[1] = b[1] /\ a[2] = b[2] /\ PathLess(a[3], b[3])
    \/ a[1] = b[1] /\ a[2] = b[2] /\ a[3] = b[3] /\ Len(a) = 4 /\ a[4] < b[4]

\* heapq.heappush: the heap is kept as the sorted sequence of its entries,
\* which fixes the order heappop returns them in (equal tuples are
\* indistinguishable).
heappush(heap, item) ==
    LET k == Cardinality({i \in 1..Len(heap) : ~TupleLess(item, heap[i])})
    IN  SubSeq(heap, 1, k) \o <<item>> \o SubSeq(heap, k + 1, Len(heap))

best_first_search_init ==
    << <<haversine(cities[start], cities[goal]), start, <<start>> >> >>

RECURSIVE best_first_search_push(_, _, _)
best_first_search_push(heap, path, nbrs) ==
    IF nbrs = <<>> THEN heap
    ELSE LET neighbor == Head(nbrs)
             item == <<haversine(cities[neighbor], cities[goal]), neighbor,
                       Append(path, neighbor)>>
         IN  best_first_search_push(heappush(heap, item), path, Tail(nbrs))

\* Mutant of best_first_search_iter: the goal test is made on the neighbours
\* as they are pushed instead of on the city popped.
best_first_search_iter_tests_neighbors(heap) ==
    IF heap = <<>> THEN Return(heap, None)
    ELSE LET city == Head(heap)[2]
             path == Head(heap)[3]
             nbrs == Unseen(city, path)
         IN  IF \E i \in 1..Len(nbrs) : nbrs[i] \notin DOMAIN cities
             THEN KeyError(Tail(heap))
             ELSE IF In(goal, nbrs) THEN Return(Tail(heap), Append(path, goal))
             ELSE Loop(best_first_search_push(Tail(heap), path, nbrs))

best_first_search_iter(heap) ==
    IF heap = <<>> THEN Return(heap, None)
    ELSE LET city == Head(heap)[2]
             path == Head(heap)[3]
             nbrs == Unseen(city, path)
         IN  IF city = goal THEN Return(Tail(heap), path)
             ELSE IF \E i \in 1..Len(nbrs) : nbrs[i] \notin DOMAIN cities
                  THEN KeyError(Tail(heap))
                  ELSE Loop(best_first_search_push(Tail(heap), path, nbrs))

a_star_search_init == << <<0, start, <<start>>, 0>> >>

\* Mutant of f_score: the accumulated distance is left out of the priority.
f_score_without_g(new_g, neighbor) == haversine(cities[neighbor], cities[goal])

\* "new_f = new_g + haversine(cities[neighbor], cities[goal])"
f_score(new_g, neighbor) == new_g + haversine(cities[neighbor], cities[goal])

\* "if neighbor not in visited or new_g < visited[neighbor]"
Improves(vis, neighbor, new_g) ==
    neighbor \notin DOMAIN vis \/ new_g < vis[neighbor]

\* The for loop of a_star_search over the neighbours left in nbrs; s holds
\* pq, visited and the history of pushes.
RECURSIVE a_star_search_push(_, _, _, _, _)
a_star_search_push(s, city, path, g, nbrs) ==
    IF nbrs = <<>> THEN s
    ELSE LET neighbor == Head(nbrs)
             new_g == g + haversine(cities[city], cities[neighbor])
             new_f == f_score(new_g, neighbor)
             item == <<new_f, neighbor, Append(path, neighbor), new_g>>
         IN  IF Improves(s.visited, neighbor, new_g)
             THEN a_star_search_push(
                      [pq |-> heappush(s.pq, item),
                       visited |-> Put(s.visited, neighbor, new_g),
                       pushed |-> s.pushed \cup {<<neighbor, new_g>>}],
                      city, path, g, Tail(nbrs))
             ELSE a_star_search_push(s, city, path, g, Tail(nbrs))

\* One pass of a_star_search's loop; the frontier is the record
\* [pq, visited, pushed].
a_star_search_iter(s) ==
    IF s.pq = <<>> THEN Return(s, None)
    ELSE LET city == Head(s.pq)[2]
             path == Head(s.pq)[3]
             g == Head(s.pq)[4]
             nbrs == Get(adjacency_list, city)
             popped == [s EXCEPT !.pq = Tail(s.pq)]
         IN  IF city = goal THEN Return(popped, path)
             ELSE IF \E i \in 1..Len(nbrs) : nbrs[i] \notin DOMAIN cities
                  THEN KeyError(popped)
                  ELSE Loop(a_star_search_push(popped, city, path, g, nbrs))

-----------------------------------------------------------------------------
(* The searches run to their end: the function call as a whole.             *)

RECURSIVE brute_force_search(_)
brute_force_search(stk) ==
    LET r == brute_force_search_iter(stk)
    IN  IF r.outcome = "loop" THEN brute_force_search(r.frontier) ELSE r

RECURSIVE bfs(_)
bfs(q) ==
    LET r == bfs_iter(q)
    IN  IF r.outcome = "loop" THEN bfs(r.frontier) ELSE r

RECURSIVE dfs(_)
dfs(stk) ==
    LET r == dfs_iter(stk)
    IN  IF r.outcome = "loop" THEN dfs(r.frontier) ELSE r

RECURSIVE best_first_search(_)
best_first_search(heap) ==
    LET r == best_first_search_iter(heap)
    IN  IF r.outcome = "loop" THEN best_first_search(r.frontier) ELSE r

RECURSIVE a_star_search(_)
a_star_search(s) ==
    LET r == a_star_search_iter(s)
    IN  IF r.outcome = "loop" THEN a_star_search(r.frontier) ELSE r

-----------------------------------------------------------------------------
(* Input files                                                              *)

SeqsUpTo(S, n) == UNION {[1..k -> S] : k \in 0..n}

\* Lines of the adjacency file, as their fields: every line "a b" of two
\* names (a line may name one city twice), a line with one field and a
\* line with three.
AdjacencyLines ==
    {<<a, b>> : a \in Names, b \in Names} \cup {<<1>>, <<1, 2, 3>>}

AdjacencyFiles == SeqsUpTo(AdjacencyLines, MaxLines)

\* Longitude of the n-th place of the first cities file, in arcs of 45
\* degrees: 0, 1, 3, 4, 6, ...
Spread(n) == (n - 1) + ((n - 1) \div 2)

\* Three cities files, as rows of fields.  In the first every name has its
\* own place on the equator.  In the second the row of the last name lacks
\* a field (and is skipped), the first city is at the north pole and the
\* others share one place.  In the third all cities share one place.
CitiesFileSpread(names) == [n \in names |-> <<n, 0, 45 * Spread(n)>>]

CitiesFileShort(names) ==
    [n \in names |-> IF n = Cardinality(names) THEN <<n, 0>>
                     ELSE IF n = 1 THEN <<n, 90, 0>> ELSE <<n, 0, 0>>]

CitiesFileSame(names) == [n \in names |-> <<n, 0, 0>>]

CitiesFiles ==
    {CitiesFileSpread(Names), CitiesFileShort(Names), CitiesFileSame(Names)}

-----------------------------------------------------------------------------
(* main                                                                     *)

NoSearch ==
    /\ stack = <<>> /\ dfs_stack = <<>> /\ queue = <<>> /\ best_pq = <<>>
    /\ pq = <<>> /\ visited = EmptyDict /\ pushed = {} /\ iters = 0

\* main has read both paths, load_cities has returned and load_adjacency
\* has opened its file.
Init ==
    /\ file \in AdjacencyFiles
    /\ lineno = 0
    /\ cities \in {load_cities(EmptyDict, rows) : rows \in CitiesFiles}
    /\ adjacency_list = EmptyDict
    /\ pc = "load_adjacency"
    /\ start = NoName /\ goal = NoName /\ choice = NoChoice
    /\ route = None
    /\ NoSearch

\* load_adjacency reads one line.
LoadLine ==
    /\ pc = "load_adjacency" /\ lineno < Len(file)
    /\ lineno' = lineno + 1
    /\ IF LineRaises(file[lineno + 1])
       THEN pc' = "ValueError" /\ UNCHANGED adjacency_list
       ELSE /\ adjacency_list' = load_adjacency_line(adjacency_list, file[lineno + 1])
            /\ pc' = pc
    /\ UNCHANGED <<file, cities, start, goal, choice, route, searchVars>>

\* load_adjacency closes the file and returns at its end; main enters its
\* loop.
LoadReturn ==
    /\ pc = "load_adjacency" /\ lineno = Len(file)
    /\ pc' = "start"
    /\ file' = <<>> /\ lineno' = 0
    /\ UNCHANGED <<adjacency_list, cities, start, goal, choice, route, searchVars>>

\* The start prompt: 'list' prints the names and prompts again.
InputStart ==
    /\ pc = "start"
    /\ \E s \in Names \cup {NoName, ListCmd} :
          IF s = ListCmd THEN UNCHANGED <<pc, start>>
          ELSE start' = s /\ pc' = "goal"
    /\ UNCHANGED <<file, lineno, adjacency_list, cities, goal, choice, route, searchVars>>

\* The destination prompt and the test of both names.
InputGoal ==
    /\ pc = "goal"
    /\ \E g \in Names \cup {NoName} :
          /\ goal' = g
          /\ pc' = IF start \notin DOMAIN cities \/ g \notin DOMAIN cities
                   THEN "start" ELSE "choice"
    /\ UNCHANGED <<file, lineno, adjacency_list, cities, start, choice, route, searchVars>>

\* Mutant of InputChoice: after "Invalid choice." the outer loop is
\* continued, so that the start city is asked for again.
InputChoice_continues_outer ==
    /\ pc = "choice"
    /\ \E c \in Choices \cup {NoChoice} :
          /\ choice' = c
          /\ pc' = IF c \in Choices THEN "search" ELSE "start"
          /\ stack' = IF c = 1 THEN brute_force_search_init ELSE <<>>
          /\ queue' = IF c = 2 THEN bfs_init ELSE <<>>
          /\ dfs_stack' = IF c = 3 THEN dfs_init ELSE <<>>
          /\ best_pq' = IF c = 4 THEN best_first_search_init ELSE <<>>
          /\ pq' = IF c = 5 THEN a_star_search_init ELSE <<>>
          /\ pushed' = IF c = 5 THEN {<<start, 0>>} ELSE {}
    /\ UNCHANGED <<file, lineno, adjacency_list, cities, start, goal, route, visited, iters>>

\* The menu: a key of search_methods calls the search, which sets up its
\* frontier; anything else prints "Invalid choice." and prompts again.
InputChoice ==
    /\ pc = "choice"
    /\ \E c \in Choices \cup {NoChoice} :
          /\ choice' = c
          /\ pc' = IF c \in Choices THEN "search" ELSE "choice"
          /\ stack' = IF c = 1 THEN brute_force_search_init ELSE <<>>
          /\ queue' = IF c = 2 THEN bfs_init ELSE <<>>
          /\ dfs_stack' = IF c = 3 THEN dfs_init ELSE <<>>
          /\ best_pq' = IF c = 4 THEN best_first_search_init ELSE <<>>
          /\ pq' = IF c = 5 THEN a_star_search_init ELSE <<>>
          /\ pushed' = IF c = 5 THEN {<<start, 0>>} ELSE {}
    /\ UNCHANGED <<file, lineno, adjacency_list, cities, start, goal, route, visited, iters>>

\* What main does with the outcome of a pass: the loop goes on; or the call
\* returned and main prints the route and sums haversine over it (cities[..]
\* of a name without coordinates raises KeyError), then prompts; or the
\* KeyError raised inside the search ends main.
AfterPass(r) ==
    /\ iters' = iters + 1
    /\ route' = r.value
    /\ pc' = CASE r.outcome = "loop" -> "search"
              [] r.outcome = "KeyError" -> "KeyError"
              [] OTHER -> IF \E i \in 1..Len(r.value) : r.value[i] \notin DOMAIN cities
                          THEN "KeyError_total_distance" ELSE "next"
    /\ UNCHANGED <<file, lineno, adjacency_list, cities, start, goal, choice>>

BruteForceStep ==
    /\ pc = "search" /\ choice = 1
    /\ LET r == brute_force_search_iter(stack)
       IN  stack' = r.frontier /\ AfterPass(r)
    /\ UNCHANGED <<dfs_stack, queue, best_pq, pq, visited, pushed>>

BfsStep ==
    /\ pc = "search" /\ choice = 2
    /\ LET r == bfs_iter(queue)
       IN  queue' = r.frontier /\ AfterPass(r)
    /\ UNCHANGED <<stack, dfs_stack, best_pq, pq, visited, pushed>>

DfsStep ==
    /\ pc = "search" /\ choice = 3
    /\ LET r == dfs_iter(dfs_stack)
       IN  dfs_stack' = r.frontier /\ AfterPass(r)
    /\ UNCHANGED <<stack, queue, best_pq, pq, visited, pushed>>

BestFirstStep ==
    /\ pc = "search" /\ choice = 4
    /\ LET r == best_first_search_iter(best_pq)
       IN  best_pq' = r.frontier /\ AfterPass(r)
    /\ UNCHANGED <<stack, dfs_stack, queue, pq, visited, pushed>>

AStarStep ==
    /\ pc = "search" /\ choice = 5
    /\ LET r == a_star_search_iter([pq |-> pq, visited |-> visited, pushed |-> pushed])
       IN  /\ pq' = r.frontier.pq
           /\ visited' = r.frontier.visited
           /\ pushed' = r.frontier.pushed
           /\ AfterPass(r)
    /\ UNCHANGED <<stack, dfs_stack, queue, best_pq>>

\* The last prompt: '2' leaves the inner loop, '3' returns from main, any
\* other text goes round the inner loop to the menu.  The locals of the
\* finished call are gone; route has been printed and is dead, so it is
\* cleared here rather than carried into the next call.
InputNext ==
    /\ pc = "next"
    /\ \E next_action \in 1..4 :
          pc' = CASE next_action = 2 -> "start"
                  [] next_action = 3 -> "exit"
                  [] OTHER -> "choice"
    /\ route' = None
    /\ UNCHANGED <<start, goal, choice>>
    /\ stack' = <<>> /\ dfs_stack' = <<>> /\ queue' = <<>> /\ best_pq' = <<>>
    /\ pq' = <<>> /\ visited' = EmptyDict /\ pushed' = {} /\ iters' = 0
    /\ UNCHANGED <<file, lineno, adjacency_list, cities>>

Next ==
    \/ LoadLine \/ LoadReturn
    \/ InputStart \/ InputGoal \/ InputChoice \/ InputNext
    \/ BruteForceStep \/ BfsStep \/ DfsStep \/ BestFirstStep \/ AStarStep

Spec == Init /\ [][Next]_vars

-----------------------------------------------------------------------------
(* The three searches without heuristic on their own: the state on entry   *)
(* to brute_force_search, bfs or dfs, called by main after load_adjacency  *)
(* has read a file of up to MaxEdges lines of two names.  The orientation  *)
(* of a line does not change what load_adjacency builds, so the lines are  *)
(* taken with their names in order.                                         *)

MaxEdges == 3

EdgeLines == {<<a, b>> \in Names \X Names : a <= b}

InitUninformed ==
    /\ file = <<>> /\ lineno = 0
    /\ cities = load_cities(EmptyDict, CitiesFileSame(Names))
    /\ adjacency_list \in {load_adjacency(EmptyDict, lines) : lines \in SeqsUpTo(EdgeLines, MaxEdges)}
    /\ start \in Names /\ goal \in Names
    /\ choice \in {1, 2, 3}
    /\ pc = "search"
    /\ stack = IF choice = 1 THEN brute_force_search_init ELSE <<>>
    /\ queue = IF choice = 2 THEN bfs_init ELSE <<>>
    /\ dfs_stack = IF choice = 3 THEN dfs_init ELSE <<>>
    /\ best_pq = <<>> /\ pq = <<>> /\ visited = EmptyDict /\ pushed = {}
    /\ iters = 0
    /\ route = None

NextUninformed == BruteForceStep \/ BfsStep \/ DfsStep

SpecUninformed == InitUninformed /\ [][NextUninformed]_vars

-----------------------------------------------------------------------------
(* The two heuristic searches on their own: the state on entry to           *)
(* best_first_search or a_star_search, called by main for cities that all   *)
(* have coordinates and roads between places that all have coordinates.     *)
(* A heap returns its entries in the order of their tuples whatever the     *)
(* order they were pushed in, and a_star_search gives each neighbour of a   *)
(* city the same new_g whatever its place in the list, so the order and     *)
(* the repetition of the lines make no difference to these two searches:    *)
(* the files are taken to list a set of roads in increasing order.          *)

NumPlaces == 4
MaxRoads == 4

Places == 1..NumPlaces

Roads == {<<a, b>> \in Places \X Places : a < b}

RoadFiles ==
    {lines \in SeqsUpTo(Roads, MaxRoads) :
        \A i \in 1..(Len(lines) - 1) :
            \/ lines[i][1] < lines[i + 1][1]
            \/ lines[i][1] = lines[i + 1][1] /\ lines[i][2] < lines[i + 1][2]}

\* A cities file with the first two cities at the poles and the others on
\* the equator, 90 degrees apart.
CitiesFilePolar(names) ==
    [n \in names |-> IF n = 1 THEN <<n, 90, 0>>
                     ELSE IF n = 2 THEN <<n, -90, 0>> ELSE <<n, 0, 90 * (n - 3)>>]

InitInformed ==
    /\ file = <<>> /\ lineno = 0
    /\ cities \in {load_cities(EmptyDict, rows) :
                      rows \in {CitiesFileSpread(Places), CitiesFilePolar(Places),
                                CitiesFileSame(Places)}}
    /\ adjacency_list \in {load_adjacency(EmptyDict, lines) : lines \in RoadFiles}
    /\ start \in Places /\ goal \in Places
    /\ choice \in {4, 5}
    /\ pc = "search"
    /\ stack = <<>> /\ dfs_stack = <<>> /\ queue = <<>>
    /\ best_pq = IF choice = 4 THEN best_first_search_init ELSE <<>>
    /\ pq = IF choice = 5 THEN a_star_search_init ELSE <<>>
    /\ visited = EmptyDict
    /\ pushed = IF choice = 5 THEN {<<start, 0>>} ELSE {}
    /\ iters = 0
    /\ route = None

NextInformed == BestFirstStep \/ AStarStep

SpecInformed == InitInformed /\ [][NextInformed]_vars

-----------------------------------------------------------------------------
(* Notions the properties are stated in                                     *)

\* "sum(haversine(cities[route[i]], cities[route[i+1]]) ...)" in main
RECURSIVE TotalDistance(_)
TotalDistance(p) ==
    IF Len(p) < 2 THEN 0
    ELSE TotalDistance(ButLast(p)) + haversine(cities[p[Len(p) - 1]], cities[p[Len(p)]])

\* The search call has returned to main (which may then fail to sum the
\* distances of the route).
Returned == pc \in {"next", "KeyError_total_distance"}

Neighbors(n) == Range(Get(adjacency_list, n))

RECURSIVE ReachableFrom(_)
ReachableFrom(S) ==
    LET T == S \cup UNION {Neighbors(n) : n \in S}
    IN  IF T = S THEN S ELSE ReachableFrom(T)

GoalReachable == goal \in ReachableFrom({start})

Nodes == DOMAIN adjacency_list \cup {start}

\* p leads from start to goal along adjacency entries.
IsWalk(p) ==
    /\ Len(p) >= 1 /\ p[1] = start /\ p[Len(p)] = goal
    /\ \A i \in 1..(Len(p) - 1) : In(p[i + 1], Get(adjacency_list, p[i]))

NoRepeat(p) == \A i, j \in 1..Len(p) : i # j => p[i] # p[j]

\* The paths from start that repeat no location: those in P and all their
\* extensions along adjacency entries.
RECURSIVE Extensions(_)
Extensions(P) ==
    LET Q == P \cup {Append(p, n) : p \in P, n \in Nodes}
        R == {p \in Q : /\ NoRepeat(p)
                        /\ \A i \in 1..(Len(p) - 1) : In(p[i + 1], Get(adjacency_list, p[i]))}
    IN  IF R = P THEN P ELSE Extensions(R)

\* Every path from start to goal that repeats no location.
SimplePaths == {p \in Extensions({<<start>>}) : IsWalk(p)}

EdgeCount(p) == Len(p) - 1

-----------------------------------------------------------------------------
(* Properties                                                               *)

\* C1: when goal is reachable from start, bfs returns a path from start to
\* goal with the least number of edges: no path in the adjacency map has
\* fewer, and so neither has the path brute_force_search or dfs returns.
C1_BfsFewestEdges ==
    (choice = 2 /\ Returned /\ GoalReachable) =>
        /\ IsWalk(route)
        /\ \A p \in SimplePaths : EdgeCount(route) <= EdgeCount(p)
        /\ EdgeCount(route) <= EdgeCount(brute_force_search(brute_force_search_init).value)
        /\ EdgeCount(route) <= EdgeCount(dfs(dfs_init).value)

\* bfs has returned a path with fewer edges than the one dfs returns.
C1_Witness ==
    /\ choice = 2 /\ Returned /\ GoalReachable
    /\ dfs(dfs_init).outcome = "return"
    /\ EdgeCount(route) < EdgeCount(dfs(dfs_init).value)

\* C4: a path returned by any of the five searches begins with start, ends
\* with goal, joins consecutive locations by adjacency entries and holds no
\* location twice.
C4_ReturnedPathIsSimple ==
    (choice \in Choices /\ Returned /\ route # None) =>
        IsWalk(route) /\ NoRepeat(route)

\* a_star_search has returned a path of two edges after it had pushed an
\* entry that leads back to start.
C4_Witness ==
    /\ choice = 5 /\ Returned /\ Len(route) = 3
    /\ \E e \in pushed : e[1] = start /\ e[2] > 0

\* C6: with start = goal each search returns [start] on its first pop: it
\* makes one pass, pushes nothing, raises nothing.
C6_StartIsGoal ==
    (choice \in Choices /\ start = goal /\ pc \notin {"start", "goal", "choice", "exit"}) =>
        \/ pc = "search" /\ iters = 0
        \/ /\ pc = "next" /\ iters = 1 /\ route = <<start>>
           /\ stack = <<>> /\ dfs_stack = <<>> /\ queue = <<>>
           /\ best_pq = <<>> /\ pq = <<>> /\ visited = EmptyDict
           /\ pushed \subseteq {<<start, 0>>}

\* A search for the city itself has returned, for a city that has
\* neighbours.
C6_Witness ==
    /\ choice \in Choices /\ start = goal /\ pc = "next" /\ route = <<start>>
    /\ Get(adjacency_list, start) # <<>>

\* dfs after k passes of its loop; outcome "over" if it had returned before.
RECURSIVE DfsAfter(_)
DfsAfter(k) ==
    IF k = 0 THEN Loop(dfs_init)
    ELSE LET before == DfsAfter(k - 1)
         IN  IF before.outcome = "loop" THEN dfs_iter(before.frontier)
             ELSE [before EXCEPT !.outcome = "over"]

\* C9: brute_force_search and dfs, run pass by pass on the same adjacency
\* map, start and goal, have equal stacks after every pass, return in the
\* same pass and return the same value.
C9_BruteForceIsDfs ==
    (choice = 1 /\ (pc = "search" \/ Returned)) =>
        LET d == DfsAfter(iters)
        IN  /\ d.frontier = stack
            /\ d.outcome = (IF pc = "search" THEN "loop" ELSE "return")
            /\ d.value = route

\* brute_force_search is in its third pass or later with two entries or
\* more on its stack, the top one a path of three cities.
C9_Witness ==
    /\ choice = 1 /\ pc = "search" /\ iters >= 2 /\ Len(stack) >= 2
    /\ Len(Last(stack)[2]) = 3

Count(x, list) == Cardinality({i \in 1..Len(list) : list[i] = x})

\* The neighbours a name gets from the lines read, in the order of the
\* lines: a line of two fields gives its first name the second and then its
\* second name the first; other lines give nothing.
RECURSIVE NeighborsInFileOrder(_, _)
NeighborsInFileOrder(name, lines) ==
    IF lines = <<>> THEN <<>>
    ELSE LET parts == Last(lines)
         IN  NeighborsInFileOrder(name, ButLast(lines))
             \o (IF Len(parts) = 2 /\ parts[1] = name THEN <<parts[2]>> ELSE <<>>)
             \o (IF Len(parts) = 2 /\ parts[2] = name THEN <<parts[1]>> ELSE <<>>)

\* C7: whatever lines load_adjacency has read, B is in A's list as often as
\* A is in B's; and while the file is open each list holds the neighbours in
\* the order of the lines read, lines of fewer than two fields adding
\* nothing.
C7_AdjacencySymmetric ==
    /\ \A a, b \in Names :
          Count(b, Get(adjacency_list, a)) = Count(a, Get(adjacency_list, b))
    /\ pc \in {"load_adjacency", "ValueError"} =>
          \A a \in Names :
              Get(adjacency_list, a) = NeighborsInFileOrder(a, SubSeq(file, 1, lineno))

\* load_adjacency is at the end of a file of two lines of two fields that
\* share a name, which has got its two neighbours in the order of the lines.
C7_Witness ==
    /\ pc = "load_adjacency" /\ lineno = Len(file) /\ Len(file) = 2
    /\ \E a \in Names :
          /\ Len(Get(adjacency_list, a)) = 2
          /\ adjacency_list[a][1] # a /\ adjacency_list[a][2] # a
          /\ adjacency_list[a][1] # adjacency_list[a][2]
          /\ adjacency_list[a][1] \in {file[1][1], file[1][2]}

\* C8, for one step: a search is called only with start and goal in cities and a choice
\* among the keys of search_methods; after a name that is not in cities the
\* start prompt comes next; after any other menu text the menu comes next
\* with start and goal as they were; either way cities and adjacency_list
\* are as they were and main has not ended.
C8_Step ==
    /\ (pc # "search" /\ pc' = "search") =>
          start' \in DOMAIN cities /\ goal' \in DOMAIN cities /\ choice' \in Choices
    /\ (pc = "goal" /\ (start \notin DOMAIN cities \/ goal' \notin DOMAIN cities)) =>
          pc' = "start" /\ cities' = cities /\ adjacency_list' = adjacency_list
    /\ (pc = "choice" /\ choice' \notin Choices) =>
          /\ pc' = "choice" /\ start' = start /\ goal' = goal
          /\ cities' = cities /\ adjacency_list' = adjacency_list

\* C8 holds of every step of main.
C8_InteractionLoop == [][C8_Step]_vars

\* The menu is up again, with start and goal both in cities, after a text
\* that is no key of search_methods.
C8_Witness ==
    pc = "choice" /\ choice = NoChoice /\ start \in DOMAIN cities /\ goal \in DOMAIN cities


\* Every name of the adjacency map has coordinates, and the distances
\* between the cities satisfy the triangle inequality.
MetricGraph ==
    /\ \A n \in Nodes : n \in DOMAIN cities /\ Neighbors(n) \subseteq DOMAIN cities
    /\ \A a, b, c \in DOMAIN cities :
          haversine(cities[a], cities[c])
              <= haversine(cities[a], cities[b]) + haversine(cities[b], cities[c])

\* C2: on such a graph, with goal reachable, a_star_search returns a path
\* from start to goal whose total distance is the least of all paths from
\* start to goal, and so not more than that of the path best_first_search
\* returns.
C2_AStarShortest ==
    (choice = 5 /\ Returned /\ GoalReachable /\ MetricGraph) =>
        /\ IsWalk(route)
        /\ \A p \in SimplePaths : TotalDistance(route) <= TotalDistance(p)
        /\ LET b == best_first_search(best_first_search_init)
           IN  /\ b.outcome = "return" /\ IsWalk(b.value)
               /\ TotalDistance(route) <= TotalDistance(b.value)

\* a_star_search has returned a path shorter than the one
\* best_first_search returns.
C2_Witness ==
    /\ choice = 5 /\ Returned /\ GoalReachable /\ MetricGraph
    /\ TotalDistance(route) < TotalDistance(best_first_search(best_first_search_init).value)

\* The search call is over: it returned or it raised.
SearchOver == choice \in Choices /\ (Returned \/ pc = "KeyError")

\* C3: with start and goal in cities and goal not reachable from start,
\* each search ends by returning None, none by raising.
C3_UnreachableReturnsNone ==
    (SearchOver /\ ~GoalReachable) => (pc = "next" /\ route = None)

\* C5: with goal reachable from start each search ends by returning a path
\* from start to goal, and the only simple path if there is just one.
C5_ReachableReturnsPath ==
    (SearchOver /\ GoalReachable) =>
        /\ Returned /\ IsWalk(route)
        /\ Cardinality(SimplePaths) = 1 => route \in SimplePaths

\* The least g among the entries pushed for city n.
LeastPushed(n, entries) ==
    CHOOSE g \in {e[2] : e \in {x \in entries : x[1] = n}} :
        \A e \in entries : e[1] = n => g <= e[2]

\* C10, for one step: in a_star_search an entry for n with cost g is pushed only if g is
\* less than the cost of every entry pushed for n before, the first entry
\* (start, cost 0) included; and visited[n] is always the least cost among
\* the entries pushed for n.
C10_Step ==
    (choice = 5 /\ pc = "search") =>
        /\ \A e \in pushed' \ pushed :
              \A before \in pushed : before[1] = e[1] => e[2] < before[2]
        /\ \A n \in DOMAIN visited' : visited'[n] = LeastPushed(n, pushed')

\* C10 holds of every pass of a_star_search.
C10_PushOnlyIfBetter == [][C10_Step]_vars

=============================================================================
